---- MODULE Spec2Model ----
(***************************************************************************)
(* Cycle prediction engine of the menstrual-cycle tracker, the two edge     *)
(* functions around it (predict-cycle, which stores a prediction, and      *)
(* send-reminders, which sweeps the reminders against the stored one) and  *)
(* the offline sync queue of the page.                                     *)
(*                                                                         *)
(* The shared library (utils/prediction-algorithm.ts) and the predict-cycle *)
(* edge function each carry a predictCycle; the library's is followed line  *)
(* by line first, the function's (edge_...) with the function.              *)
(*                                                                         *)
(* Representation.                                                         *)
(*   - A calendar date string 'YYYY-MM-DD' is its day number (an integer). *)
(*   - A JavaScript Date is its instant in hours (getTime() / 3600000).    *)
(*     new Date('YYYY-MM-DD') is UTC midnight of that day: 24 * day.       *)
(*   - Date.getDate/setDate work on the local wall clock of the runtime's  *)
(*     time zone, Date.toISOString on UTC: both are modelled, the time     *)
(*     zone (tz) is part of the environment.                               *)
(*   - average and stdDev are real numbers in the code.  average is kept   *)
(*     as the exact fraction num/den, stdDev as the exact fraction of its  *)
(*     square (the variance); every comparison the code makes on them is   *)
(*     made on these fractions, so the arithmetic is that of the reals     *)
(*     (IEEE rounding error below 1e-13 is not modelled).                  *)
(*   - confidence is kept in hundredths (the code rounds it to two         *)
(*     decimals before returning it) together with a NaN flag.             *)
(*   - A JSON object is a record with the keys that are present; {} is the *)
(*     empty function <<>>.  null (a query without a row) is <<>> too.      *)
(*   - A table is the sequence of its rows in insertion order.             *)
(***************************************************************************)
EXTENDS Integers, Sequences, FiniteSets, TLC

VARIABLES
    entries,               \* the caller's list of CycleEntry, in caller order
    profile,               \* the caller's UserProfile
    maxEntriesToAnalyze,   \* third argument of predictCycle
    now,                   \* the instant new Date() returns, in hours
    tz,                    \* time zone of the runtime
    calls,                 \* the last calls of predictCycle: arguments, locals, result
    evaluations,           \* the calls of shouldSendReminder made outside a sweep
    reminders,             \* table public.reminders
    predictions,           \* table public.predictions
    sweep,                 \* the invocation of send-reminders
    requests,              \* the invocations of predict-cycle
    sweeps,                \* the invocations of send-reminders that have answered
    entriesTable,          \* table public.cycle_entries, as predict-cycle reads it
    queue,                 \* SyncQueue.queue of the page
    processing,            \* SyncQueue.processing
    storage,               \* localStorage item 'sync_queue'
    worker,                \* the running call of SyncQueue.process()
    tables,                \* cycle_entries and symptom_logs, as the page writes them
    syncLog                \* the history of the queue: items added, ids logged, returns

\* the variables of the edge functions and of the database
backend == <<evaluations, reminders, predictions, sweep, requests, sweeps, entriesTable>>

\* the variables of a direct caller of the library
caller == <<entries, profile, maxEntriesToAnalyze, calls>>

\* the variables of the page and of the tables it writes
frontend == <<queue, processing, storage, worker, tables, syncLog>>

vars == <<entries, profile, maxEntriesToAnalyze, now, tz, calls,
          evaluations, reminders, predictions, sweep, requests, sweeps, entriesTable,
          queue, processing, storage, worker, tables, syncLog>>

(***************************************************************************)
(* Bounds of the model                                                     *)
(***************************************************************************)
MaxEntries == 7      \* longest chronological log (Spec)
MaxUnordered == 3    \* longest log in arbitrary caller order (SpecOrder)
MaxGap == 7          \* longest cycle of the paired histories, in days (SpecPair)
MaxReminders == 2    \* most rows of the reminders table (SpecSweep)
MaxRequests == 2     \* most invocations of predict-cycle (SpecStore)
MaxCycles == 3       \* most cycles asked of predictMultipleCycles (SpecForecast)
MaxSweeps == 2       \* most sweeps of send-reminders in a row (SpecResweep)
MaxItems == 2        \* most items ever added to the sync queue (SpecSync)

HoursPerDay == 24
DefaultMaxEntries == 90

MinHistoricalSamples == 3

LoggedDates == {0, 1, 28, 56}
UnorderedDates == {0, 2, 5}
Flows == {"medium", "none"}
UnorderedFlows == {"light", "none", "null"}
Profiles == { [cycle_length_days |-> 28, period_length_days |-> 5],
              [cycle_length_days |-> 21, period_length_days |-> 3] }

\* UTC, and a zone five hours west of UTC whose clocks spring forward one
\* hour at 02:00 local time (07:00 UTC) of day 30.
TimeZones == { [offset |-> 0, hasDst |-> FALSE, dstStart |-> 0],
               [offset |-> 0 - 5, hasDst |-> TRUE, dstStart |-> 30 * 24 + 7] }

\* the clock of the first call, and the later instant of a second call
ClockStart == 29 * 24 + 13
ClockLater == 31 * 24 + 2

(***************************************************************************)
(* Numbers                                                                 *)
(***************************************************************************)
Min(a, b) == IF a < b THEN a ELSE b
Max(a, b) == IF a > b THEN a ELSE b

\* Math.round(num / den) for den > 0: floor(num/den + 1/2)
MathRound(num, den) == (2 * num + den) \div (2 * den)

RECURSIVE SumSeq(_)
SumSeq(s) == IF s = <<>> THEN 0 ELSE Head(s) + SumSeq(Tail(s))

RECURSIVE SumSquares(_)
SumSquares(s) == IF s = <<>> THEN 0 ELSE Head(s) * Head(s) + SumSquares(Tail(s))

(***************************************************************************)
(* Dates                                                                   *)
(***************************************************************************)
\* new Date('YYYY-MM-DD'): UTC midnight
ParseDate(day) == day * HoursPerDay

\* date.toISOString().split('T')[0]: the UTC calendar date
IsoDate(instant) == instant \div HoursPerDay

\* offset of local time from UTC in effect at a UTC instant
UtcOffset(instant, zone) ==
    IF zone.hasDst /\ instant >= zone.dstStart THEN zone.offset + 1 ELSE zone.offset

\* the instant of a local wall-clock time (a wall-clock time skipped by the
\* spring-forward is read with the offset in effect before it)
LocalToUtc(wall, zone) ==
    LET standard == wall - zone.offset
    IN  IF ~zone.hasDst \/ standard < zone.dstStart THEN standard
        ELSE IF standard - 1 >= zone.dstStart THEN standard - 1
        ELSE standard

\* result.setDate(result.getDate() + days) moves the local wall clock by whole
\* days; toISOString() then reads the UTC date
addDays(date, days, zone) ==
    LET local == date + UtcOffset(date, zone)
        moved == local + days * HoursPerDay
    IN  IsoDate(LocalToUtc(moved, zone))

(***************************************************************************)
(* identifyCycleStarts                                                     *)
(***************************************************************************)
\* faulty variant: a missing flow_intensity counts as flow
HasFlowUnlessNone(entry) == entry.flow_intensity # "none"

\* entry.flow_intensity && entry.flow_intensity !== 'none'
HasFlow(entry) == entry.flow_intensity \notin {"null", "none"}

\* Array.prototype.sort with (a, b) => a.date - b.date is stable: an element
\* goes behind every element already placed whose date is not later
InsertByDate(sorted, e) ==
    LET k == Cardinality({i \in 1..Len(sorted) : sorted[i].date <= e.date})
    IN  SubSeq(sorted, 1, k) \o <<e>> \o SubSeq(sorted, k + 1, Len(sorted))

RECURSIVE SortByDate(_)
SortByDate(s) ==
    IF s = <<>> THEN <<>>
    ELSE InsertByDate(SortByDate(SubSeq(s, 1, Len(s) - 1)), s[Len(s)])

WithDate(e) ==
    [entry_date |-> e.entry_date, flow_intensity |-> e.flow_intensity,
     date |-> ParseDate(e.entry_date)]

RECURSIVE ScanEntries(_, _, _, _)
ScanEntries(sortedEntries, i, inPeriod, cycleStarts) ==
    IF i > Len(sortedEntries) THEN cycleStarts
    ELSE LET entry == sortedEntries[i]
             hasFlow == HasFlow(entry)
         IN  IF hasFlow /\ ~inPeriod
             THEN ScanEntries(sortedEntries, i + 1, TRUE, Append(cycleStarts, entry.date))
             ELSE IF ~hasFlow
             THEN ScanEntries(sortedEntries, i + 1, FALSE, cycleStarts)
             ELSE ScanEntries(sortedEntries, i + 1, inPeriod, cycleStarts)

\* faulty variant: the entries are scanned in caller order
identifyCycleStartsUnsorted(es) ==
    ScanEntries([i \in 1..Len(es) |-> WithDate(es[i])], 1, FALSE, <<>>)

identifyCycleStarts(es) ==
    IF Len(es) = 0 THEN <<>>
    ELSE LET sortedEntries == SortByDate([i \in 1..Len(es) |-> WithDate(es[i])])
         IN  ScanEntries(sortedEntries, 1, FALSE, <<>>)

(***************************************************************************)
(* calculateCycleLengths, calculateCycleStats                              *)
(***************************************************************************)
calculateCycleLengths(cycleStarts) ==
    [i \in 1..(Len(cycleStarts) - 1) |->
        MathRound(cycleStarts[i + 1] - cycleStarts[i], HoursPerDay)]

\* average = num/den; stdDev = sqrt(variance.num / variance.den)
calculateCycleStats(cycleLengths) ==
    LET n == Len(cycleLengths)
        sum == SumSeq(cycleLengths)
    IN  IF n = 0 THEN [average |-> [num |-> 0, den |-> 1],
                       variance |-> [num |-> 0, den |-> 1]]
        ELSE IF n = 1 THEN [average |-> [num |-> sum, den |-> 1],
                            variance |-> [num |-> 0, den |-> 1]]
        ELSE [average |-> [num |-> sum, den |-> n],
              \* sum((v - avg)^2) / (n - 1) = (n * sum(v^2) - sum^2) / (n * (n - 1))
              variance |-> [num |-> n * SumSquares(cycleLengths) - sum * sum,
                            den |-> n * (n - 1)]]

(***************************************************************************)
(* Confidence                                                              *)
(***************************************************************************)
Number(hundredths) == [nan |-> FALSE, hundredths |-> hundredths]
NaN == [nan |-> TRUE, hundredths |-> 0]

\* 100 * (1 - (stdDev / average) * 0.5) >= k - 1/2, for average > 0:
\*   100 * stdDev / average <= 201 - 2k, squared on both sides
RoundsToAtLeast(stats, k) ==
    10000 * stats.variance.num * stats.average.den * stats.average.den
        <= (201 - 2 * k) * (201 - 2 * k)
             * stats.variance.den * stats.average.num * stats.average.num

\* faulty variant: the confidence rises with stdDev / average
historicalConfidenceRising(stats) ==
    IF stats.average.num = 0
    THEN IF stats.variance.num = 0 THEN NaN ELSE Number(95)
    ELSE LET reached == {k \in 50..95 : RoundsToAtLeast(stats, k)}
         IN  Number(IF reached = {} THEN 95
                    ELSE 145 - (CHOOSE k \in reached : \A j \in reached : j <= k))

\* Math.round(100 * Math.max(0.5, Math.min(0.95, 1 - (stdDev / average) * 0.5)))
\* stdDev / average is 0/0 = NaN when average is 0, and NaN passes through
\* Math.min, Math.max and Math.round
historicalConfidence(stats) ==
    IF stats.average.num = 0
    THEN IF stats.variance.num = 0 THEN NaN ELSE Number(50)
    ELSE LET reached == {k \in 50..95 : RoundsToAtLeast(stats, k)}
         IN  Number(IF reached = {} THEN 50
                    ELSE CHOOSE k \in reached : \A j \in reached : j <= k)

\* faulty variant: the documented upper end of the hybrid band, for any count
hybridConfidenceFlat(sampleCount) == Number(70)

\* Math.round((0.6 + cycleLengths.length * 0.1) * 100)
hybridConfidence(sampleCount) == Number(60 + 10 * sampleCount)

(***************************************************************************)
(* predictCycle                                                            *)
(***************************************************************************)
\* cycleEntries.slice(0, maxEntriesToAnalyze), for maxEntriesToAnalyze >= 0
slice(cycleEntries, maxEntries) ==
    SubSeq(cycleEntries, 1, Min(maxEntries, Len(cycleEntries)))

\* faulty variant: the forecast is always anchored to the current date
lastCycleStartNow(cycleStarts, clock) == clock

\* cycleStarts.length > 0 ? cycleStarts[cycleStarts.length - 1] : new Date()
lastCycleStart(cycleStarts, clock) ==
    IF Len(cycleStarts) > 0 THEN cycleStarts[Len(cycleStarts)] ELSE clock

\* the local variables of predictCycle when it returns
predictCycleLocals(cycleEntries, prof, maxEntries, clock) ==
    LET recentEntries == slice(cycleEntries, maxEntries)
        cycleStarts == identifyCycleStarts(recentEntries)
        cycleLengths == calculateCycleLengths(cycleStarts)
        stats == calculateCycleStats(cycleLengths)
        analysed == Len(cycleStarts) >= 2
        predictedCycleLength ==
            IF analysed THEN MathRound(stats.average.num, stats.average.den)
            ELSE prof.cycle_length_days
    IN  [recentEntries |-> recentEntries,
         cycleStarts |-> cycleStarts,
         predictedCycleLength |-> predictedCycleLength,
         confidence |->
            IF ~analysed THEN Number(50)
            ELSE IF Len(cycleLengths) >= MinHistoricalSamples
            THEN historicalConfidence(stats)
            ELSE hybridConfidence(Len(cycleLengths)),
         source |->
            IF ~analysed THEN "profile_default"
            ELSE IF Len(cycleLengths) >= MinHistoricalSamples THEN "historical"
            ELSE "hybrid",
         metadata |->
            IF ~analysed THEN [cycles_analyzed |-> 0]
            ELSE [cycles_analyzed |-> Len(cycleLengths),
                  average_cycle_length |-> stats.average,
                  std_deviation_squared |-> stats.variance],
         lastCycleStart |-> lastCycleStart(cycleStarts, clock),
         ovulationDay |-> MathRound(predictedCycleLength, 2)]

predictCycle(cycleEntries, prof, maxEntries, clock, zone) ==
    LET l == predictCycleLocals(cycleEntries, prof, maxEntries, clock)
    IN  [next_period_start |-> addDays(l.lastCycleStart, l.predictedCycleLength, zone),
         next_period_end |->
            addDays(l.lastCycleStart,
                    l.predictedCycleLength + prof.period_length_days - 1, zone),
         fertility_window_start |-> addDays(l.lastCycleStart, l.ovulationDay - 5, zone),
         fertility_window_end |-> addDays(l.lastCycleStart, l.ovulationDay + 1, zone),
         confidence |-> l.confidence,
         source |-> l.source,
         metadata |-> l.metadata]

(***************************************************************************)
(* Callers                                                                 *)
(***************************************************************************)
\* one call of predictCycle: its arguments, the clock it read, its locals
\* and what it returned
Call(cycleEntries, prof, maxEntries, clock, zone) ==
    [cycleEntries |-> cycleEntries, profile |-> prof, maxEntriesToAnalyze |-> maxEntries,
     now |-> clock,
     locals |-> predictCycleLocals(cycleEntries, prof, maxEntries, clock),
     result |-> predictCycle(cycleEntries, prof, maxEntries, clock, zone)]

Entry(d, f) == [entry_date |-> d, flow_intensity |-> f]

\* the reorderings of a list
Reorderings(s) ==
    LET n == Len(s)
        bijections == {f \in [1..n -> 1..n] : \A i, j \in 1..n : f[i] = f[j] => i = j}
    IN  {[i \in 1..n |-> s[f[i]]] : f \in bijections}

\* a chronological log of Len(gaps) + 1 bleeding days, gaps[k] days from the
\* k-th to the next, each but the last followed by a logged day without flow
History(gaps) ==
    LET start(k) == SumSeq(SubSeq(gaps, 1, k - 1))
    IN  [i \in 1..(2 * Len(gaps) + 1) |->
            IF i % 2 = 1 THEN Entry(start((i + 1) \div 2), "heavy")
            ELSE Entry(start(i \div 2) + 1, "none")]

Histories == {History(gaps) : gaps \in [1..MinHistoricalSamples -> 2..MaxGap]}

\* the irregular history of the test suite, by the lengths its comments give:
\* four cycle starts 28, 35 and 21 days apart
IrregularHistories == {History(<<28, 35, 21>>)}

\* a history whose latest logged day is a day without flow
ClosedHistory(gaps) ==
    LET open == History(gaps)
    IN  Append(open, Entry(open[Len(open)].entry_date + 1, "none"))

ForecastHistories ==
    Histories \cup IrregularHistories
        \cup {ClosedHistory(gaps) : gaps \in [1..MinHistoricalSamples -> {21, 28}]}
        \cup {<<>>, History(<<>>), ClosedHistory(<<28>>)}

\* the loop of predictMultipleCycles from its i-th iteration: the prediction
\* for currentEntries, then the loop on the list with the synthetic entry
\* (flow 'medium' on the predicted start) put in front
RECURSIVE forecastLoop(_, _, _, _, _, _)
forecastLoop(currentEntries, prof, numberOfCycles, i, clock, zone) ==
    IF i >= numberOfCycles THEN <<>>
    ELSE LET prediction == predictCycle(currentEntries, prof, DefaultMaxEntries,
                                        clock, zone)
             syntheticEntry == Entry(prediction.next_period_start, "medium")
         IN  <<prediction>>
                 \o forecastLoop(<<syntheticEntry>> \o currentEntries, prof,
                                 numberOfCycles, i + 1, clock, zone)

predictMultipleCycles(cycleEntries, prof, numberOfCycles, clock, zone) ==
    forecastLoop(cycleEntries, prof, numberOfCycles, 0, clock, zone)

\* predictMultipleCycles(entries, profile, numberOfCycles)
PredictMultiple ==
    /\ calls = <<>>
    /\ \E numberOfCycles \in 1..MaxCycles :
          calls' = <<[cycleEntries |-> entries, profile |-> profile,
                      numberOfCycles |-> numberOfCycles, now |-> now,
                      predictions |-> predictMultipleCycles(entries, profile,
                                                            numberOfCycles, now, tz)]>>
    /\ UNCHANGED <<entries, profile, maxEntriesToAnalyze, now, tz>>
    /\ UNCHANGED backend
    /\ UNCHANGED frontend

\* the caller appends a day's entry to a log kept in chronological order
LogEntry ==
    /\ calls = <<>>
    /\ Len(entries) < MaxEntries
    /\ \E d \in LoggedDates, f \in Flows :
          /\ entries # <<>> => entries[Len(entries)].entry_date <= d
          /\ entries' = Append(entries, Entry(d, f))
    /\ UNCHANGED <<profile, maxEntriesToAnalyze, now, tz, calls>>
    /\ UNCHANGED backend
    /\ UNCHANGED frontend

\* the caller appends an entry of any date: the list is in no order
LogEntryAnyOrder ==
    /\ calls = <<>>
    /\ Len(entries) < MaxUnordered
    /\ \E d \in UnorderedDates, f \in UnorderedFlows :
          entries' = Append(entries, Entry(d, f))
    /\ UNCHANGED <<profile, maxEntriesToAnalyze, now, tz, calls>>
    /\ UNCHANGED backend
    /\ UNCHANGED frontend

\* predictCycle(entries, profile, maxEntriesToAnalyze), the first call
Predict ==
    /\ calls = <<>>
    /\ calls' = <<Call(entries, profile, maxEntriesToAnalyze, now, tz)>>
    /\ UNCHANGED <<entries, profile, maxEntriesToAnalyze, now, tz>>
    /\ UNCHANGED backend
    /\ UNCHANGED frontend

\* time passes between two calls
AdvanceClock ==
    /\ Len(calls) = 1
    /\ now = ClockStart
    /\ now' = ClockLater
    /\ UNCHANGED <<entries, profile, maxEntriesToAnalyze, tz, calls>>
    /\ UNCHANGED backend
    /\ UNCHANGED frontend

\* a second call with the same entries in another (or the same) order
PredictReordered ==
    /\ Len(calls) = 1
    /\ \E reordered \in Reorderings(entries) :
          /\ entries' = reordered
          /\ calls' = Append(calls, Call(reordered, profile, maxEntriesToAnalyze, now, tz))
    /\ UNCHANGED <<profile, maxEntriesToAnalyze, now, tz>>
    /\ UNCHANGED backend
    /\ UNCHANGED frontend

\* a second call with another history
PredictOther ==
    /\ Len(calls) = 1
    /\ \E other \in Histories :
          /\ entries' = other
          /\ calls' = Append(calls, Call(other, profile, maxEntriesToAnalyze, now, tz))
    /\ UNCHANGED <<profile, maxEntriesToAnalyze, now, tz>>
    /\ UNCHANGED backend
    /\ UNCHANGED frontend

(***************************************************************************)
(* send-reminders: shouldSendReminder                                      *)
(***************************************************************************)
\* a query that found no row, a key that is not there
null == <<>>

ReminderTypes ==
    {"period_start", "period_end", "fertile_window", "medication", "hydration", "custom"}

DefaultDaysBefore == 3

\* faulty variant: every frequency counts as daily
isDailyAlways(schedule_config) == TRUE

\* (reminder.schedule_config.frequency || 'daily') === 'daily': a missing and
\* an empty frequency are both falsy
isDaily(schedule_config) ==
    IF "frequency" \in DOMAIN schedule_config /\ schedule_config.frequency # ""
    THEN schedule_config.frequency = "daily"
    ELSE TRUE

\* reminder.schedule_config.days_before || 3: a missing days_before and the
\* number 0 are both falsy
daysBefore(schedule_config) ==
    IF "days_before" \in DOMAIN schedule_config /\ schedule_config.days_before # 0
    THEN schedule_config.days_before
    ELSE DefaultDaysBefore

\* faulty variant: a custom reminder follows the predicted period start
eventDateCustomAsStart(reminder_type, prediction) ==
    IF reminder_type \in {"period_start", "custom"} THEN <<prediction.cycle_start_date>>
    ELSE IF reminder_type = "period_end" THEN <<prediction.cycle_end_date>>
    ELSE IF reminder_type = "fertile_window"
              /\ "fertility_window_start" \in DOMAIN prediction.metadata
    THEN <<prediction.metadata.fertility_window_start>>
    ELSE <<>>

\* the date string the branch of the reminder's type reads from the
\* prediction, as a list of one; the empty list where shouldSendReminder
\* returns false without reading a date
eventDate(reminder_type, prediction) ==
    IF reminder_type = "period_start" THEN <<prediction.cycle_start_date>>
    ELSE IF reminder_type = "period_end" THEN <<prediction.cycle_end_date>>
    ELSE IF reminder_type = "fertile_window"
              /\ "fertility_window_start" \in DOMAIN prediction.metadata
    THEN <<prediction.metadata.fertility_window_start>>
    ELSE <<>>

\* reminderDate = new Date(date); reminderDate.setDate(reminderDate.getDate()
\* - daysBefore); reminderDate.toISOString().split('T')[0]
reminderDate(date, days, zone) == addDays(ParseDate(date), 0 - days, zone)

shouldSendReminder(reminder, prediction, clock, zone) ==
    LET today == IsoDate(clock)
    IN  IF ~reminder.enabled THEN FALSE
        ELSE IF reminder.reminder_type \in {"medication", "hydration"}
                  /\ isDaily(reminder.schedule_config)
        THEN TRUE
        ELSE IF prediction = null THEN FALSE
        ELSE LET date == eventDate(reminder.reminder_type, prediction)
             IN  IF date = <<>> THEN FALSE
                 ELSE reminderDate(date[1], daysBefore(reminder.schedule_config), zone)
                        = today

\* generateReminderMessage: the custom message when there is one, else the
\* text of the reminder's type with the predicted date it quotes, if any
generateReminderMessage(reminder, prediction) ==
    LET type == reminder.reminder_type
        config == reminder.schedule_config
    IN  IF "custom_message" \in DOMAIN config /\ config.custom_message # ""
        THEN [text |-> config.custom_message, date |-> <<>>]
        ELSE IF type = "period_start"
        THEN IF prediction # null
             THEN [text |-> "Your period is expected to start around",
                   date |-> <<prediction.cycle_start_date>>]
             ELSE [text |-> "Period reminder", date |-> <<>>]
        ELSE IF type = "period_end"
        THEN IF prediction # null
             THEN [text |-> "Your period is expected to end around",
                   date |-> <<prediction.cycle_end_date>>]
             ELSE [text |-> "Period end reminder", date |-> <<>>]
        ELSE IF type = "fertile_window"
        THEN IF prediction # null /\ "fertility_window_start" \in DOMAIN prediction.metadata
             THEN [text |-> "Your fertile window starts around",
                   date |-> <<prediction.metadata.fertility_window_start>>]
             ELSE [text |-> "Fertility window reminder", date |-> <<>>]
        ELSE IF type = "medication"
        THEN [text |-> "Time to take your medication.", date |-> <<>>]
        ELSE IF type = "hydration"
        THEN [text |-> "Remember to stay hydrated!", date |-> <<>>]
        ELSE [text |-> "Reminder notification", date |-> <<>>]

\* one call of shouldSendReminder: its arguments, the clock it read, the
\* value of its local daysBefore and what it returned
Evaluation(reminder, prediction, clock, zone) ==
    [reminder |-> reminder, prediction |-> prediction, now |-> clock,
     daysBefore |-> daysBefore(reminder.schedule_config),
     due |-> shouldSendReminder(reminder, prediction, clock, zone)]

(***************************************************************************)
(* The database                                                            *)
(***************************************************************************)
\* public.user_accounts: five accounts, the last one soft-deleted
user_accounts ==
    { [id |-> "u1", auth_id |-> "a1", email |-> "alice@example.com", deleted_at |-> FALSE],
      [id |-> "u2", auth_id |-> "a2", email |-> "bob@example.com", deleted_at |-> FALSE],
      [id |-> "u3", auth_id |-> "a3", email |-> "carol@example.com", deleted_at |-> FALSE],
      [id |-> "u4", auth_id |-> "a4", email |-> "dana@example.com", deleted_at |-> FALSE],
      [id |-> "u5", auth_id |-> "a5", email |-> "eve@example.com", deleted_at |-> TRUE] }

\* public.profiles: u4 has none
profiles ==
    { [user_id |-> "u1", cycle_length_days |-> 28, period_length_days |-> 5],
      [user_id |-> "u2", cycle_length_days |-> 28, period_length_days |-> 5],
      [user_id |-> "u3", cycle_length_days |-> 21, period_length_days |-> 3] }

\* public.cycle_entries by user: u1 logged four cycle starts 28 days apart,
\* u2 two, the others none
cycle_entries ==
    [u \in {"u1", "u2", "u3", "u4", "u5"} |->
        IF u = "u1" THEN History(<<28, 28, 28>>)
        ELSE IF u = "u2" THEN History(<<28>>)
        ELSE <<>>]

\* .insert(row) on public.predictions: the row is appended unless it breaks
\* CHECK (confidence >= 0 AND confidence <= 1) or CHECK (source IN
\* ('historical', 'ai', 'user_input', 'hybrid')); a null confidence (NaN is
\* serialised as null) passes the first
PredictionSources == {"historical", "ai", "user_input", "hybrid"}

insertError(row) ==
    \/ ~row.confidence.nan /\ row.confidence.hundredths \notin 0..100
    \/ row.source \notin PredictionSources

\* .eq('user_id', user).order('prediction_date', { ascending: false })
\* .limit(1): a row of the user that no other row of the user is dated after;
\* which one of several rows of the same prediction_date is not determined
LatestPredictions(table, user) ==
    {table[i] : i \in {i \in 1..Len(table) :
        /\ table[i].user_id = user
        /\ \A j \in 1..Len(table) :
              table[j].user_id = user
              => table[j].prediction_date <= table[i].prediction_date}}

\* .select('cycle_start_date, cycle_end_date, metadata')
SelectedPrediction(row) ==
    [cycle_start_date |-> row.cycle_start_date, cycle_end_date |-> row.cycle_end_date,
     metadata |-> row.metadata]

(***************************************************************************)
(* predict-cycle: the edge function                                        *)
(***************************************************************************)
\* the function's own copy of the algorithm (index.ts, lines 28 to 144)
edge_calculateCycleStats(cycleLengths) ==
    LET n == Len(cycleLengths)
        sum == SumSeq(cycleLengths)
    IN  IF n = 0 THEN [average |-> [num |-> 0, den |-> 1],
                       variance |-> [num |-> 0, den |-> 1]]
        ELSE IF n = 1 THEN [average |-> [num |-> sum, den |-> 1],
                            variance |-> [num |-> 0, den |-> 1]]
        ELSE [average |-> [num |-> sum, den |-> n],
              variance |-> [num |-> n * SumSquares(cycleLengths) - sum * sum,
                            den |-> n * (n - 1)]]

\* the loop of identifyCycleStarts
RECURSIVE edge_ScanEntries(_, _, _, _)
edge_ScanEntries(sortedEntries, i, inPeriod, cycleStarts) ==
    IF i > Len(sortedEntries) THEN cycleStarts
    ELSE LET entry == sortedEntries[i]
             hasFlow == entry.flow_intensity # "null" /\ entry.flow_intensity # "none"
         IN  IF hasFlow /\ ~inPeriod
             THEN edge_ScanEntries(sortedEntries, i + 1, TRUE,
                                   Append(cycleStarts, entry.date))
             ELSE IF ~hasFlow
             THEN edge_ScanEntries(sortedEntries, i + 1, FALSE, cycleStarts)
             ELSE edge_ScanEntries(sortedEntries, i + 1, inPeriod, cycleStarts)

edge_identifyCycleStarts(es) ==
    IF Len(es) = 0 THEN <<>>
    ELSE edge_ScanEntries(
             SortByDate([i \in 1..Len(es) |->
                            [entry_date |-> es[i].entry_date,
                             flow_intensity |-> es[i].flow_intensity,
                             date |-> ParseDate(es[i].entry_date)]]),
             1, FALSE, <<>>)

edge_calculateCycleLengths(cycleStarts) ==
    [k \in 1..(Len(cycleStarts) - 1) |->
        MathRound(cycleStarts[k + 1] - cycleStarts[k], HoursPerDay)]

\* faulty variant: the days are added to the UTC date
edge_addDaysUtc(date, days, zone) == IsoDate(date + days * HoursPerDay)

\* setDate(getDate() + days) on the local wall clock, then the UTC date
edge_addDays(date, days, zone) ==
    LET wall == date + UtcOffset(date, zone) + days * HoursPerDay
    IN  IsoDate(LocalToUtc(wall, zone))

edge_predictCycle(cycleEntries, prof, maxEntries, clock, zone) ==
    LET recentEntries == slice(cycleEntries, maxEntries)
        cycleStarts == edge_identifyCycleStarts(recentEntries)
        analysed == Len(cycleStarts) >= 2
        cycleLengths == edge_calculateCycleLengths(cycleStarts)
        stats == edge_calculateCycleStats(cycleLengths)
        historical == Len(cycleLengths) >= 3
        predictedCycleLength ==
            IF analysed THEN MathRound(stats.average.num, stats.average.den)
            ELSE prof.cycle_length_days
        \* Math.max(0.5, Math.min(0.95, 1 - (stdDev / average) * 0.5)), rounded
        \* to hundredths on return
        reached == {k \in 50..95 : RoundsToAtLeast(stats, k)}
        confidence ==
            IF ~analysed THEN Number(50)
            ELSE IF ~historical THEN Number(60 + Len(cycleLengths) * 10)
            ELSE IF stats.average.num = 0
            THEN IF stats.variance.num = 0 THEN NaN ELSE Number(50)
            ELSE IF reached = {} THEN Number(50)
            ELSE Number(CHOOSE k \in reached : \A j \in reached : j <= k)
        \* lastCycleStart
        lastStart ==
            IF Len(cycleStarts) > 0 THEN cycleStarts[Len(cycleStarts)] ELSE clock
        ovulationDay == MathRound(predictedCycleLength, 2)
    IN  [next_period_start |-> edge_addDays(lastStart, predictedCycleLength, zone),
         next_period_end |->
            edge_addDays(lastStart,
                         predictedCycleLength + prof.period_length_days - 1, zone),
         fertility_window_start |-> edge_addDays(lastStart, ovulationDay - 5, zone),
         fertility_window_end |-> edge_addDays(lastStart, ovulationDay + 1, zone),
         confidence |-> confidence,
         source |-> IF ~analysed THEN "profile_default"
                    ELSE IF historical THEN "historical" ELSE "hybrid",
         metadata |-> IF ~analysed THEN [cycles_analyzed |-> 0]
                      ELSE [cycles_analyzed |-> Len(cycleLengths),
                            average_cycle_length |-> stats.average,
                            std_deviation_squared |-> stats.variance]]

\* .single(): the row when the query matches exactly one, an error otherwise
single(rows) ==
    IF Cardinality(rows) = 1 THEN [data |-> CHOOSE row \in rows : TRUE, error |-> FALSE]
    ELSE [data |-> null, error |-> TRUE]

\* faulty variant: a missing profile is replaced by the column defaults
fetchProfileOrDefault(userId) ==
    IF \E p \in profiles : p.user_id = userId
    THEN single({p \in profiles : p.user_id = userId})
    ELSE [data |-> [user_id |-> userId, cycle_length_days |-> 28,
                    period_length_days |-> 5],
          error |-> FALSE]

\* .from('profiles').select('cycle_length_days, period_length_days')
\* .eq('user_id', userId).single()
fetchProfile(userId) == single({p \in profiles : p.user_id = userId})

\* the list in the opposite order
Reversed(s) == [i \in 1..Len(s) |-> s[Len(s) + 1 - i]]

\* .from('cycle_entries').select('entry_date, flow_intensity')
\* .eq('user_id', user).order('entry_date', { ascending: false }).limit(90);
\* the rows of a user are stored by ascending date, one per date
SelectEntriesFrom(table, user) ==
    slice(Reversed(table[user]), DefaultMaxEntries)

\* the query on the seeded table
SelectEntries(user) == SelectEntriesFrom(cycle_entries, user)

\* the row predict-cycle inserts for a prediction
PredictionRow(user, prediction, clock) ==
    [user_id |-> user,
     prediction_date |-> IsoDate(clock),
     cycle_start_date |-> prediction.next_period_start,
     cycle_end_date |-> prediction.next_period_end,
     confidence |-> prediction.confidence,
     source |-> prediction.source,
     metadata |->
        IF "average_cycle_length" \in DOMAIN prediction.metadata
        THEN [cycles_analyzed |-> prediction.metadata.cycles_analyzed,
              average_cycle_length |-> prediction.metadata.average_cycle_length,
              std_deviation_squared |-> prediction.metadata.std_deviation_squared,
              fertility_window_start |-> prediction.fertility_window_start,
              fertility_window_end |-> prediction.fertility_window_end]
        ELSE [cycles_analyzed |-> prediction.metadata.cycles_analyzed,
              fertility_window_start |-> prediction.fertility_window_start,
              fertility_window_end |-> prediction.fertility_window_end]]

(***************************************************************************)
(* Inputs of the edge functions                                            *)
(***************************************************************************)
\* the clock of the sweep: 09:00 UTC of day 109
SweepClock == 109 * 24 + 9

\* the clocks of predict-cycle: 13:00 UTC of day 85, 02:00 UTC of day 86
StoreClock == 85 * 24 + 13
StoreClockLater == 86 * 24 + 2

Reminder(id, user, type, config, enabled, deleted) ==
    [id |-> id, user_id |-> user, reminder_type |-> type, schedule_config |-> config,
     enabled |-> enabled, deleted_at |-> deleted]

\* schedule_config objects: empty, the seed data's, and one key or two
ScheduleConfigs ==
    {<<>>, [days_before |-> 0, time |-> "09:00"]}
        \cup {[days_before |-> d] : d \in {0, 1, 3}}
        \cup {[frequency |-> f] : f \in {"daily", "once"}}
        \cup {[days_before |-> d, custom_message |-> "Call the clinic"] : d \in {0, 1, 3}}

EvaluatedReminders ==
    {Reminder(1, "u1", type, config, enabled, FALSE) :
        type \in ReminderTypes, config \in ScheduleConfigs, enabled \in BOOLEAN}

\* the seed data's prediction, inserted on a given day
SeedPrediction(user, currentDate) ==
    [user_id |-> user, prediction_date |-> currentDate,
     cycle_start_date |-> currentDate - 3, cycle_end_date |-> currentDate + 25,
     confidence |-> Number(95), source |-> "historical",
     metadata |-> [method |-> "average_cycle_length"]]

\* the prediction predict-cycle stores for a user at an instant
StoredPrediction(user, clock, zone) ==
    PredictionRow(user,
        edge_predictCycle(SelectEntries(user),
                          (CHOOSE p \in profiles : p.user_id = user),
                          DefaultMaxEntries, clock, zone),
        clock)

\* no prediction, the seed data's of day 34 (period start on day 31, the day
\* after the clocks of the second zone change) and the one computed for a
\* user without entries at ClockStart (day 29)
EvaluatedPredictions ==
    {null, SelectedPrediction(SeedPrediction("u1", 34))}
        \cup {SelectedPrediction(StoredPrediction("u3", ClockStart, zone)) :
                zone \in TimeZones}

\* 09:00 UTC of the days 27 to 53
EvaluationClocks == {day * HoursPerDay + 9 : day \in 27..53}

\* the rows a swept table is made of: daily-habit reminders, prediction-bound
\* reminders, a disabled one, a soft-deleted one and one of a deleted account
SweptRows ==
    {Reminder(0, "u1", type, config, TRUE, FALSE) :
        type \in {"medication", "hydration"},
        config \in {<<>>, [frequency |-> "daily"], [frequency |-> "once"]}}
    \cup {Reminder(0, "u1", type, config, TRUE, FALSE) :
        type \in {"period_start", "period_end", "fertile_window", "custom"},
        config \in {<<>>, [days_before |-> 7]}}
    \cup {Reminder(0, "u1", "medication", <<>>, FALSE, FALSE),
          Reminder(0, "u1", "medication", <<>>, TRUE, TRUE),
          Reminder(0, "u5", "medication", <<>>, TRUE, FALSE)}

\* the tables of up to MaxReminders rows, the id of a row being its position
ReminderTables ==
    UNION {{[i \in 1..n |-> Reminder(i, rows[i].user_id, rows[i].reminder_type,
                                     rows[i].schedule_config, rows[i].enabled,
                                     rows[i].deleted_at)] :
               rows \in [1..n -> SweptRows]} : n \in 0..MaxReminders}

\* the prediction store before a sweep: empty, or the prediction of u1
\* computed at StoreClock (period start on day 112)
SweptPredictions ==
    {<<>>} \cup {<<StoredPrediction("u1", StoreClock, zone)>> : zone \in TimeZones}

(***************************************************************************)
(* send-reminders: the sweep                                               *)
(***************************************************************************)
\* faulty variant: a failed delivery counts as sent
sendNotificationOptimistic(transport) == TRUE

\* sendNotification: true when no e-mail service is configured (the message
\* is only logged) or the service answers OK; false when it answers not OK
\* or fetch throws
sendNotification(transport) == transport \in {"unconfigured", "ok"}

TransportOutcomes == {"unconfigured", "ok", "not_ok", "thrown"}

\* faulty variant: a missing prediction never skips a reminder
skipsReminderNever(predictionError, reminder_type) == FALSE

\* predictionError && reminder.reminder_type !== 'medication' &&
\* reminder.reminder_type !== 'hydration'
skipsReminder(predictionError, reminder_type) ==
    predictionError /\ reminder_type \notin {"medication", "hydration"}

\* .from('reminders').select('*').eq('enabled', true).is('deleted_at', null)
EnabledReminders(table) ==
    LET kept == {i \in 1..Len(table) : table[i].enabled /\ ~table[i].deleted_at}
        rank(i) == Cardinality({j \in kept : j <= i})
    IN  [k \in 1..Cardinality(kept) |-> table[CHOOSE i \in kept : rank(i) = k]]

\* .from('user_accounts').select('id, email').eq('id', id)
\* .is('deleted_at', null).single()
ActiveUsers(id) == {u \in user_accounts : u.id = id /\ ~u.deleted_at}

IdleSweep == [pc |-> "idle"]

\* the response after the loop
SweepResponse(fetched, results) ==
    [status |-> 200, success |-> TRUE, processed |-> Len(fetched),
     sent |-> Len(results), results |-> results]

\* the sweep after an iteration of the loop: the response follows the last one
SweepAfter(fetched, next, trace, results) ==
    IF next > Len(fetched)
    THEN [pc |-> "done", reminders |-> fetched, next |-> next, trace |-> trace,
          results |-> results, response |-> SweepResponse(fetched, results)]
    ELSE [pc |-> "loop", reminders |-> fetched, next |-> next, trace |-> trace,
          results |-> results]

\* what an iteration did with its reminder
Step(reminder, outcome, prediction, transport) ==
    [reminder |-> reminder, outcome |-> outcome, prediction |-> prediction,
     transport |-> transport]

\* the request arrives and the enabled reminders are fetched; a fetch that
\* fails is thrown and answered with status 500
SweepStart ==
    /\ sweep.pc = "idle"
    /\ \E remindersError \in BOOLEAN :
          sweep' = IF remindersError
                   THEN [pc |-> "done", reminders |-> <<>>, next |-> 1, trace |-> <<>>,
                         results |-> <<>>,
                         response |-> [status |-> 500, error |-> "Failed to fetch reminders"]]
                   ELSE SweepAfter(EnabledReminders(reminders), 1, <<>>, <<>>)
    /\ UNCHANGED <<evaluations, reminders, predictions, requests, now, tz>>
    /\ UNCHANGED <<sweeps, entriesTable>>
    /\ UNCHANGED caller
    /\ UNCHANGED frontend

\* one iteration of the loop: the user and the latest prediction are looked
\* up, the reminder is evaluated and, if due, sent and recorded
SweepReminder ==
    /\ sweep.pc = "loop"
    /\ LET reminder == sweep.reminders[sweep.next]
           users == ActiveUsers(reminder.user_id)
           latest == LatestPredictions(predictions, reminder.user_id)
           predictionError == latest = {}
           after(step, results) ==
               SweepAfter(sweep.reminders, sweep.next + 1, Append(sweep.trace, step),
                          results)
       IN  IF users = {}
           THEN sweep' = after(Step(reminder, "no_user", null, "none"), sweep.results)
           ELSE IF skipsReminder(predictionError, reminder.reminder_type)
           THEN sweep' = after(Step(reminder, "skipped", null, "none"), sweep.results)
           ELSE \E prediction \in IF predictionError THEN {null}
                                  ELSE {SelectedPrediction(row) : row \in latest} :
                   IF shouldSendReminder(reminder, prediction, now, tz)
                   THEN \E transport \in TransportOutcomes :
                           LET sent == sendNotification(transport)
                           IN  sweep' = after(
                                   Step(reminder, "due", prediction, transport),
                                   Append(sweep.results,
                                          [reminder_id |-> reminder.id,
                                           user_id |-> reminder.user_id,
                                           reminder_type |-> reminder.reminder_type,
                                           sent |-> sent,
                                           message |-> generateReminderMessage(
                                                           reminder, prediction)]))
                   ELSE sweep' = after(Step(reminder, "not_due", prediction, "none"),
                                       sweep.results)
    /\ UNCHANGED <<evaluations, reminders, predictions, requests, now, tz>>
    /\ UNCHANGED <<sweeps, entriesTable>>
    /\ UNCHANGED caller
    /\ UNCHANGED frontend

\* shouldSendReminder called on its own
Evaluate ==
    /\ evaluations = <<>>
    /\ \E reminder \in EvaluatedReminders, prediction \in EvaluatedPredictions :
          evaluations' = <<Evaluation(reminder, prediction, now, tz)>>
    /\ UNCHANGED <<reminders, predictions, sweep, requests, now, tz>>
    /\ UNCHANGED <<sweeps, entriesTable>>
    /\ UNCHANGED caller
    /\ UNCHANGED frontend

NoBackend ==
    /\ evaluations = <<>>
    /\ reminders = <<>>
    /\ predictions = <<>>
    /\ sweep = IdleSweep
    /\ requests = <<>>
    /\ sweeps = <<>>
    /\ entriesTable = cycle_entries

\* the page has not been opened
NoFrontend ==
    /\ queue = <<>>
    /\ processing = FALSE
    /\ storage = [present |-> FALSE]
    /\ worker = [pc |-> "idle"]
    /\ tables = [cycle_entries |-> {}, symptom_logs |-> {}]
    /\ syncLog = [added |-> <<>>, synced |-> {}, dropped |-> {}, returned |-> {},
                  reloaded |-> FALSE]

NoCaller ==
    /\ entries = <<>>
    /\ profile \in {p \in Profiles : p.cycle_length_days = 28}
    /\ maxEntriesToAnalyze = DefaultMaxEntries
    /\ calls = <<>>

(***************************************************************************)
(* predict-cycle: the invocation                                           *)
(***************************************************************************)
ErrorResponse(status, error) == [status |-> status, error |-> error]

\* the request up to the query of the cycle entries: the body is read, the
\* user resolved, the profile and the entries fetched (none of these tables
\* changes while the function runs)
Received(body, entriesError) ==
    LET byAuth == single({u \in user_accounts :
                            "user_auth_id" \in DOMAIN body /\ u.auth_id = body.user_auth_id})
        userId == IF "user_id" \in DOMAIN body THEN body.user_id ELSE byAuth.data.id
        found == fetchProfile(userId)
    IN  IF "user_id" \notin DOMAIN body /\ "user_auth_id" \notin DOMAIN body
        THEN [body |-> body, pc |-> "done",
              response |-> ErrorResponse(400, "user_id or user_auth_id is required")]
        ELSE IF "user_id" \notin DOMAIN body /\ byAuth.error
        THEN [body |-> body, pc |-> "done",
              response |-> ErrorResponse(404, "User not found")]
        ELSE IF found.error
        THEN [body |-> body, pc |-> "done", userId |-> userId,
              response |-> ErrorResponse(404, "Profile not found")]
        ELSE IF entriesError
        THEN [body |-> body, pc |-> "done", userId |-> userId,
              response |-> ErrorResponse(500, "Failed to fetch cycle entries")]
        ELSE [body |-> body, pc |-> "fetched", userId |-> userId,
              profile |-> [cycle_length_days |-> found.data.cycle_length_days,
                           period_length_days |-> found.data.period_length_days],
              cycleEntries |-> SelectEntriesFrom(entriesTable, userId)]

RequestBodies ==
    {[user_id |-> u] : u \in {"u1", "u2", "u3", "u4"}}
        \cup {[user_auth_id |-> a] : a \in {"a1", "a9"}}
        \cup {<<>>}

\* a request arrives
Receive ==
    /\ Len(requests) < MaxRequests
    /\ \E body \in RequestBodies, entriesError \in BOOLEAN :
          requests' = Append(requests, Received(body, entriesError))
    /\ UNCHANGED <<evaluations, reminders, predictions, sweep, now, tz>>
    /\ UNCHANGED <<sweeps, entriesTable>>
    /\ UNCHANGED caller
    /\ UNCHANGED frontend

\* the entries have arrived: predictCycle runs and the row to insert is built
\* with the current date
Compute ==
    /\ \E i \in 1..Len(requests) :
          /\ requests[i].pc = "fetched"
          /\ LET r == requests[i]
                 prediction == edge_predictCycle(r.cycleEntries, r.profile,
                                                 DefaultMaxEntries, now, tz)
             IN  requests' = [requests EXCEPT ![i] =
                     [body |-> r.body, pc |-> "inserting", userId |-> r.userId,
                      profile |-> r.profile, cycleEntries |-> r.cycleEntries,
                      prediction |-> prediction,
                      row |-> PredictionRow(r.userId, prediction, now)]]
    /\ UNCHANGED <<evaluations, reminders, predictions, sweep, now, tz>>
    /\ UNCHANGED <<sweeps, entriesTable>>
    /\ UNCHANGED caller
    /\ UNCHANGED frontend

\* the database executes the insert (a refused row is only logged) and the
\* function answers
Insert ==
    /\ \E i \in 1..Len(requests) :
          /\ requests[i].pc = "inserting"
          /\ LET r == requests[i]
             IN  /\ predictions' = IF insertError(r.row) THEN predictions
                                   ELSE Append(predictions, r.row)
                 /\ requests' = [requests EXCEPT ![i] =
                        [body |-> r.body, pc |-> "done", userId |-> r.userId,
                         profile |-> r.profile, cycleEntries |-> r.cycleEntries,
                         prediction |-> r.prediction, row |-> r.row,
                         refused |-> insertError(r.row),
                         response |-> [status |-> 200, success |-> TRUE,
                                       prediction |-> r.prediction]]]
    /\ UNCHANGED <<evaluations, reminders, sweep, now, tz>>
    /\ UNCHANGED <<sweeps, entriesTable>>
    /\ UNCHANGED caller
    /\ UNCHANGED frontend

\* time passes, into the next day
Tick ==
    /\ now = StoreClock
    /\ now' = StoreClockLater
    /\ UNCHANGED <<evaluations, reminders, predictions, sweep, requests, tz>>
    /\ UNCHANGED <<sweeps, entriesTable>>
    /\ UNCHANGED caller
    /\ UNCHANGED frontend

(***************************************************************************)
(* The schedule: sweeps follow each other, computations precede a sweep    *)
(***************************************************************************)
\* the instants of the hourly job: 09:00 and 10:00 UTC of day 109, 09:00 of
\* day 110
SweepClocks == {SweepClock, SweepClock + 1, SweepClock + HoursPerDay}

\* the instants of the computations: 13:00 and 14:00 UTC of day 85, 02:00 of
\* day 86
StoreClocks == {StoreClock, StoreClock + 1, StoreClockLater}

\* a day the person logs after the fact, and what is logged
LateDates == {83}
LateFlows == {"medium", "none"}

\* the row of a date replaced, or inserted in the order of the dates
UpsertEntry(rows, entry) ==
    LET before == SelectSeq(rows, LAMBDA e : e.entry_date < entry.entry_date)
        after == SelectSeq(rows, LAMBDA e : e.entry_date > entry.entry_date)
    IN  before \o <<entry>> \o after

\* the store after two computations for u1 on the day of StoreClock, the
\* person having logged flow on day 83 between them: the rows share their
\* prediction_date and differ in their dates
TiedPredictions(zone) ==
    <<StoredPrediction("u1", StoreClock, zone),
      PredictionRow("u1",
          edge_predictCycle(
              slice(Reversed(UpsertEntry(cycle_entries["u1"], Entry(83, "medium"))),
                    DefaultMaxEntries),
              (CHOOSE p \in profiles : p.user_id = "u1"),
              DefaultMaxEntries, StoreClock + 1, zone),
          StoreClock + 1)>>

\* the tables of at most one reminder
SingleReminderTables == {table \in ReminderTables : Len(table) <= 1}

\* the stores of the repeated sweep
ResweptPredictions == SweptPredictions \cup {TiedPredictions(zone) : zone \in TimeZones}

\* the sweep has answered; the job can run again
SweepEnd ==
    /\ sweep.pc = "done"
    /\ Len(sweeps) + 1 < MaxSweeps
    /\ sweeps' = Append(sweeps, [now |-> now, trace |-> sweep.trace,
                                 response |-> sweep.response])
    /\ sweep' = IdleSweep
    /\ UNCHANGED <<evaluations, reminders, predictions, requests, entriesTable, now, tz>>
    /\ UNCHANGED caller
    /\ UNCHANGED frontend

\* time passes until a later run of the hourly job
CronTick ==
    /\ sweep.pc = "idle"
    /\ \E later \in SweepClocks :
          /\ later > now
          /\ now' = later
    /\ UNCHANGED <<evaluations, reminders, predictions, sweep, requests, sweeps,
                   entriesTable, tz>>
    /\ UNCHANGED caller
    /\ UNCHANGED frontend

\* the person logs a day after the fact (online: the row is upserted)
LogLate ==
    /\ sweep.pc = "idle"
    /\ now \in StoreClocks
    /\ \E d \in LateDates, f \in LateFlows :
          entriesTable' = [entriesTable EXCEPT !["u1"] = UpsertEntry(@, Entry(d, f))]
    /\ UNCHANGED <<evaluations, reminders, predictions, sweep, requests, sweeps, now, tz>>
    /\ UNCHANGED caller
    /\ UNCHANGED frontend

\* time passes between computations, and until the sweep
StoreTick ==
    /\ sweep.pc = "idle"
    /\ \E later \in StoreClocks \cup {SweepClock} :
          /\ later > now
          /\ now' = later
    /\ UNCHANGED <<evaluations, reminders, predictions, sweep, requests, sweeps,
                   entriesTable, tz>>
    /\ UNCHANGED caller
    /\ UNCHANGED frontend

\* an invocation of predict-cycle for u1 from its request to its answer
Invoke ==
    /\ sweep.pc = "idle"
    /\ now \in StoreClocks
    /\ Len(requests) < MaxRequests
    /\ LET r == Received([user_id |-> "u1"], FALSE)
           prediction == edge_predictCycle(r.cycleEntries, r.profile,
                                           DefaultMaxEntries, now, tz)
           row == PredictionRow(r.userId, prediction, now)
       IN  /\ predictions' = IF insertError(row) THEN predictions
                             ELSE Append(predictions, row)
           /\ requests' = Append(requests,
                  [body |-> r.body, pc |-> "done", userId |-> r.userId,
                   profile |-> r.profile, cycleEntries |-> r.cycleEntries,
                   prediction |-> prediction, row |-> row,
                   refused |-> insertError(row),
                   response |-> [status |-> 200, success |-> TRUE,
                                 prediction |-> prediction]])
    /\ UNCHANGED <<evaluations, reminders, sweep, sweeps, entriesTable, now, tz>>
    /\ UNCHANGED caller
    /\ UNCHANGED frontend

(***************************************************************************)
(* The page: SyncQueue and CycleDataService.logDayEntry                    *)
(***************************************************************************)
\* private maxRetries = 3
maxRetries == 3

ItemTypes == {"cycle_entry", "symptom_log"}

\* the actions of the SyncQueueItem interface
ItemActions == {"create", "update", "delete"}

\* the action of the items added directly ('create' and 'update' share
\* their case of the switch)
EnqueuedActions == {"update"}

\* the person and the day the page logs for
LoggedUser == "u1"
LoggedDate == 85

\* the items ever added, in the order of the calls of add()
Added == syncLog.added

\* add(): id, timestamp and retries are set, the item is pushed and the queue
\* saved; the id (a random UUID) is the rank of the call, the content of the
\* edit is told apart by it
QueueItem(type, action, id) ==
    [id |-> id, type |-> type, action |-> action,
     data |-> [userId |-> LoggedUser, date |-> LoggedDate, data |-> id],
     retries |-> 0]

\* saveToStorage(): JSON.stringify(this.queue) under 'sync_queue'
Saved(items) == [present |-> TRUE, items |-> items]

\* the row of a user and date replaced or inserted: select, then update or
\* insert
UpsertRow(rows, item) ==
    {r \in rows : ~(r.user_id = item.data.userId /\ r.date = item.data.date)}
        \cup {[user_id |-> item.data.userId, date |-> item.data.date,
                data |-> item.data.data]}

DeleteRow(rows, item) ==
    {r \in rows : ~(r.user_id = item.data.userId /\ r.date = item.data.date)}

\* processCycleEntry / processSymptomLog on the rows of their table: 'create'
\* and 'update' upsert, 'delete' deletes, any other action falls through the
\* switch
appliedRows(rows, item) ==
    IF item.action \in {"create", "update"} THEN UpsertRow(rows, item)
    ELSE IF item.action = "delete" THEN DeleteRow(rows, item)
    ELSE rows

\* processItem: the table of the item's type is written
processItem(server, item) ==
    IF item.type = "cycle_entry"
    THEN [server EXCEPT !.cycle_entries = appliedRows(@, item)]
    ELSE [server EXCEPT !.symptom_logs = appliedRows(@, item)]

\* how the awaited processItem can end: 'applied' (the requests were made
\* and answered) or 'thrown'; without a request ('upsert') it just returns
ItemOutcomes(item) ==
    IF item.action \in ItemActions THEN {"applied", "thrown"}
    ELSE {"returned"}

\* faulty variant: a failed item is retried without limit
retryAlways(item) == TRUE

\* item.retries < this.maxRetries
retry(item) == item.retries < maxRetries

\* the while loop up to its next await: the first item is shifted and
\* processItem awaited, or the loop ends, the flag is reset and the queue
\* saved
continued(items, log) ==
    IF items = <<>>
    THEN [queue |-> items, processing |-> FALSE, worker |-> [pc |-> "idle"],
          log |-> [log EXCEPT !.returned =
                      @ \cup {[started |-> TRUE, queue |-> items, processing |-> FALSE]}]]
    ELSE [queue |-> Tail(items), processing |-> TRUE,
          worker |-> [pc |-> "await", item |-> Head(items)], log |-> log]

\* syncQueue.add(item) with an item of the SyncQueueItem interface
Enqueue ==
    /\ Len(Added) < MaxItems
    /\ \E type \in ItemTypes, action \in EnqueuedActions :
          LET item == QueueItem(type, action, Len(Added) + 1)
          IN  /\ queue' = Append(queue, item)
              /\ storage' = Saved(queue')
              /\ syncLog' = [syncLog EXCEPT !.added =
                                Append(@, [item |-> item, logged |-> FALSE])]
    /\ UNCHANGED <<processing, worker, tables>>
    /\ UNCHANGED <<now, tz>>
    /\ UNCHANGED caller
    /\ UNCHANGED backend

\* CycleDataService.logDayEntry(userId, entry): offline, the cycle data and
\* the symptom data are added to the queue with action 'upsert'; online, both
\* tables are written at once
logDayEntry ==
    /\ Len(Added) + 1 < MaxItems
    /\ \E isOnline \in BOOLEAN :
          LET cycle == QueueItem("cycle_entry", "upsert", Len(Added) + 1)
              symptom == QueueItem("symptom_log", "upsert", Len(Added) + 2)
          IN  IF isOnline
              THEN /\ tables' = [cycle_entries |-> UpsertRow(tables.cycle_entries, cycle),
                                 symptom_logs |-> UpsertRow(tables.symptom_logs, symptom)]
                   /\ UNCHANGED <<queue, storage, syncLog>>
              ELSE /\ queue' = queue \o <<cycle, symptom>>
                   /\ storage' = Saved(queue')
                   /\ syncLog' = [syncLog EXCEPT !.added =
                                     @ \o <<[item |-> cycle, logged |-> TRUE],
                                            [item |-> symptom, logged |-> TRUE]>>]
                   /\ UNCHANGED tables
    /\ UNCHANGED <<processing, worker>>
    /\ UNCHANGED <<now, tz>>
    /\ UNCHANGED caller
    /\ UNCHANGED backend

\* process() is called and returns at once: it is running already, or the
\* queue is empty
processBusy ==
    /\ processing \/ queue = <<>>
    /\ ~\E r \in syncLog.returned : ~r.started
    /\ syncLog' = [syncLog EXCEPT !.returned =
                      @ \cup {[started |-> FALSE, queue |-> queue,
                                processing |-> processing]}]
    /\ UNCHANGED <<queue, processing, storage, worker, tables>>
    /\ UNCHANGED <<now, tz>>
    /\ UNCHANGED caller
    /\ UNCHANGED backend

\* process() is called and starts: the flag is set and the loop entered
processStart ==
    /\ ~processing
    /\ queue # <<>>
    /\ LET next == continued(queue, syncLog)
       IN  /\ processing' = TRUE
           /\ queue' = next.queue
           /\ worker' = next.worker
    /\ UNCHANGED <<storage, tables, syncLog>>
    /\ UNCHANGED <<now, tz>>
    /\ UNCHANGED caller
    /\ UNCHANGED backend

\* the awaited processItem ends and the loop goes on: success is logged
\* ('Sync successful'); after a thrown error the item is pushed back with
\* one more retry, or given up ('Max retries exceeded'); then the next item
\* is taken or process() returns
processSettle ==
    /\ worker.pc = "await"
    /\ \E outcome \in ItemOutcomes(worker.item) :
          LET item == worker.item
              again == [item EXCEPT !.retries = @ + 1]
              remaining == IF outcome = "thrown" /\ retry(item)
                           THEN Append(queue, again) ELSE queue
              logged ==
                  IF outcome # "thrown"
                  THEN [syncLog EXCEPT !.synced = @ \cup {item.id}]
                  ELSE IF retry(item) THEN syncLog
                  ELSE [syncLog EXCEPT !.dropped =
                           @ \cup {[id |-> item.id, retries |-> item.retries]}]
              next == continued(remaining, logged)
          IN  /\ tables' = IF outcome = "applied" \/ outcome = "returned"
                           THEN processItem(tables, item) ELSE tables
              /\ queue' = next.queue
              /\ processing' = next.processing
              /\ worker' = next.worker
              /\ syncLog' = next.log
              /\ storage' = IF next.worker.pc = "idle" THEN Saved(next.queue)
                            ELSE storage
    /\ UNCHANGED <<now, tz>>
    /\ UNCHANGED caller
    /\ UNCHANGED backend

\* the page is reloaded: the module is evaluated anew and useSyncManager
\* loads the queue from the storage; the requests of an item in flight are
\* all made, or not
Reload ==
    /\ ~syncLog.reloaded
    /\ queue' = IF storage.present THEN storage.items ELSE <<>>
    /\ processing' = FALSE
    /\ worker' = [pc |-> "idle"]
    /\ \E completed \in BOOLEAN :
          tables' = IF worker.pc = "await" /\ completed
                    THEN processItem(tables, worker.item) ELSE tables
    /\ syncLog' = [syncLog EXCEPT !.reloaded = TRUE]
    /\ UNCHANGED storage
    /\ UNCHANGED <<now, tz>>
    /\ UNCHANGED caller
    /\ UNCHANGED backend

\* the function's copy of predictCycle on the arguments of a call of the
\* library's copy, at the same current date
PredictEdge ==
    /\ Len(calls) = 1
    /\ calls' = Append(calls,
                       [cycleEntries |-> entries, profile |-> profile,
                        maxEntriesToAnalyze |-> maxEntriesToAnalyze, now |-> now,
                        result |-> edge_predictCycle(entries, profile,
                                                     maxEntriesToAnalyze, now, tz)])
    /\ UNCHANGED <<entries, profile, maxEntriesToAnalyze, now, tz>>
    /\ UNCHANGED backend
    /\ UNCHANGED frontend

(***************************************************************************)
(* Spec: one call on a chronological log                                   *)
(***************************************************************************)
Init ==
    /\ entries = <<>>
    /\ profile \in Profiles
    /\ maxEntriesToAnalyze = DefaultMaxEntries
    /\ now = ClockStart
    /\ tz \in TimeZones
    /\ calls = <<>>
    /\ NoBackend
    /\ NoFrontend

Next == LogEntry \/ Predict

Spec == Init /\ [][Next]_vars

(***************************************************************************)
(* SpecOrder: a list in any order, called twice, reordered and later       *)
(***************************************************************************)
InitOrder ==
    /\ entries = <<>>
    /\ profile \in {p \in Profiles : p.cycle_length_days = 21}
    /\ maxEntriesToAnalyze \in {1, DefaultMaxEntries}
    /\ now = ClockStart
    /\ tz \in {zone \in TimeZones : zone.hasDst}
    /\ calls = <<>>
    /\ NoBackend
    /\ NoFrontend

NextOrder == LogEntryAnyOrder \/ Predict \/ AdvanceClock \/ PredictReordered

SpecOrder == InitOrder /\ [][NextOrder]_vars

(***************************************************************************)
(* SpecPair: two histories with the same number of cycle-length samples    *)
(***************************************************************************)
InitPair ==
    /\ entries \in Histories \cup IrregularHistories
    /\ profile \in {p \in Profiles : p.cycle_length_days = 28}
    /\ maxEntriesToAnalyze = DefaultMaxEntries
    /\ now = ClockStart
    /\ tz \in {zone \in TimeZones : ~zone.hasDst}
    /\ calls = <<>>
    /\ NoBackend
    /\ NoFrontend

NextPair == Predict \/ PredictOther

SpecPair == InitPair /\ [][NextPair]_vars

(***************************************************************************)
(* SpecForecast: predictMultipleCycles on a history                        *)
(***************************************************************************)
InitForecast ==
    /\ entries \in ForecastHistories
    /\ profile \in Profiles
    /\ maxEntriesToAnalyze = DefaultMaxEntries
    /\ now = ClockStart
    /\ tz \in TimeZones
    /\ calls = <<>>
    /\ NoBackend
    /\ NoFrontend

NextForecast == PredictMultiple

SpecForecast == InitForecast /\ [][NextForecast]_vars

(***************************************************************************)
(* SpecCopies: both copies of predictCycle on the same arguments           *)
(***************************************************************************)
InitCopies ==
    /\ entries \in {<<>>} \cup Histories \cup IrregularHistories
    /\ profile \in Profiles
    /\ maxEntriesToAnalyze \in {1, DefaultMaxEntries}
    /\ now = ClockStart
    /\ tz \in TimeZones
    /\ calls = <<>>
    /\ NoBackend
    /\ NoFrontend

NextCopies == LogEntryAnyOrder \/ Predict \/ PredictEdge

SpecCopies == InitCopies /\ [][NextCopies]_vars

(***************************************************************************)
(* SpecDue: shouldSendReminder on every reminder, prediction and day       *)
(***************************************************************************)
InitDue ==
    /\ NoCaller
    /\ now \in EvaluationClocks
    /\ tz \in TimeZones
    /\ NoBackend
    /\ NoFrontend

NextDue == Evaluate

SpecDue == InitDue /\ [][NextDue]_vars

(***************************************************************************)
(* SpecSweep: one sweep of send-reminders over a table of reminders        *)
(***************************************************************************)
InitSweep ==
    /\ NoCaller
    /\ now = SweepClock
    /\ tz \in TimeZones
    /\ evaluations = <<>>
    /\ reminders \in ReminderTables
    /\ predictions \in SweptPredictions
    /\ sweep = IdleSweep
    /\ requests = <<>>
    /\ sweeps = <<>>
    /\ entriesTable = cycle_entries
    /\ NoFrontend

NextSweep == SweepStart \/ SweepReminder

SpecSweep == InitSweep /\ [][NextSweep]_vars

(***************************************************************************)
(* SpecResweep: the hourly job sweeps the same stores again                *)
(***************************************************************************)
InitResweep ==
    /\ NoCaller
    /\ now = SweepClock
    /\ tz \in TimeZones
    /\ evaluations = <<>>
    /\ reminders \in SingleReminderTables
    /\ predictions \in ResweptPredictions
    /\ sweep = IdleSweep
    /\ requests = <<>>
    /\ sweeps = <<>>
    /\ entriesTable = cycle_entries
    /\ NoFrontend

NextResweep == SweepStart \/ SweepReminder \/ SweepEnd \/ CronTick

SpecResweep == InitResweep /\ [][NextResweep]_vars

(***************************************************************************)
(* SpecLatest: computations for a person, then a sweep                     *)
(***************************************************************************)
InitLatest ==
    /\ NoCaller
    /\ now = StoreClock
    /\ tz \in TimeZones
    /\ evaluations = <<>>
    /\ reminders \in {<<Reminder(1, "u1", type, <<>>, TRUE, FALSE)>> :
                         type \in {"period_start", "period_end", "fertile_window"}}
    /\ predictions = <<>>
    /\ sweep = IdleSweep
    /\ requests = <<>>
    /\ sweeps = <<>>
    /\ entriesTable = cycle_entries
    /\ NoFrontend

NextLatest == Invoke \/ LogLate \/ StoreTick \/ SweepStart \/ SweepReminder

SpecLatest == InitLatest /\ [][NextLatest]_vars

(***************************************************************************)
(* SpecSync: the page logs, the queue is processed, the page is reloaded   *)
(***************************************************************************)
InitSync ==
    /\ NoCaller
    /\ now = StoreClock
    /\ tz \in {zone \in TimeZones : ~zone.hasDst}
    /\ NoBackend
    /\ NoFrontend

NextSync == Enqueue \/ logDayEntry \/ processBusy \/ processStart \/ processSettle

SpecSync == InitSync /\ [][NextSync]_vars

(***************************************************************************)
(* SpecReload: the same page, reloaded once at any moment                  *)
(***************************************************************************)
NextReload == Enqueue \/ logDayEntry \/ processStart \/ processSettle \/ Reload

SpecReload == InitSync /\ [][NextReload]_vars

(***************************************************************************)
(* SpecStore: concurrent invocations of predict-cycle                      *)
(***************************************************************************)
InitStore ==
    /\ NoCaller
    /\ now = StoreClock
    /\ tz \in TimeZones
    /\ NoBackend
    /\ NoFrontend

NextStore == Receive \/ Compute \/ Insert \/ Tick

SpecStore == InitStore /\ [][NextStore]_vars

(***************************************************************************)
(* Properties                                                              *)
(***************************************************************************)
CallsMade == {calls[i] : i \in 1..Len(calls)}

\* number of cycle-length samples of a call: detected cycle starts - 1, or 0
SampleCount(c) == Max(Len(c.locals.cycleStarts) - 1, 0)

\* whole days from the first to the last detected cycle start: the sum of
\* the cycle-length samples
SpanDays(c) ==
    LET starts == c.locals.cycleStarts
    IN  IF starts = <<>> THEN 0
        ELSE IsoDate(starts[Len(starts)]) - IsoDate(starts[1])

\* length = round(total / n), halves rounded up
IsRoundedMean(length, total, n) ==
    /\ 2 * length * n <= 2 * total + n
    /\ 2 * total + n < 2 * (length + 1) * n

\* the calendar day the forecast is anchored to: the last detected cycle
\* start, or the current date when there is none
AnchorDay(c) ==
    LET starts == c.locals.cycleStarts
    IN  IF starts # <<>> THEN IsoDate(starts[Len(starts)]) ELSE IsoDate(c.now)

\* C1: for every entry list and profile the confidence predictCycle returns
\* is a finite number between 0.5 and 0.95
C1_ConfidenceInBounds ==
    \A c \in CallsMade :
        /\ ~c.result.confidence.nan
        /\ c.result.confidence.hundredths \in 50..95

C3_WindowLengthsExact ==
    \A c \in CallsMade :
        /\ c.result.next_period_end - c.result.next_period_start + 1
             = c.profile.period_length_days
        /\ c.result.fertility_window_end - c.result.fertility_window_start = 6

\* C4: the forecast is anchored to the last detected cycle start, or to the
\* current date when there is none: next_period_start is anchor + predicted
\* cycle length, the fertility window anchor + round(L/2) - 5 to
\* anchor + round(L/2) + 1
C4_AnchoredForecast ==
    \A c \in CallsMade :
        LET length == c.locals.predictedCycleLength
            ovulation == (length + 1) \div 2
        IN  /\ c.result.next_period_start = AnchorDay(c) + length
            /\ c.result.fertility_window_start = AnchorDay(c) + ovulation - 5
            /\ c.result.fertility_window_end = AnchorDay(c) + ovulation + 1

\* flow_intensity present and not 'none'
LoggedFlow(e) == e.flow_intensity \in {"light", "medium", "heavy", "spotting"}

\* entry j comes before entry i in the date-sorted list (entries of one date
\* keep the caller's order)
SortsBefore(es, j, i) ==
    \/ es[j].entry_date < es[i].entry_date
    \/ es[j].entry_date = es[i].entry_date /\ j < i

\* entry i has flow and its immediate predecessor is missing or has no flow
StartsCycle(es, i) ==
    LET before == {j \in 1..Len(es) : SortsBefore(es, j, i)}
    IN  /\ LoggedFlow(es[i])
        /\ \A j \in before :
              (\A k \in before : k = j \/ SortsBefore(es, k, j)) => ~LoggedFlow(es[j])

IsReordering(a, b) ==
    /\ Len(a) = Len(b)
    /\ \A i \in 1..Len(a) :
          Cardinality({j \in 1..Len(a) : a[j] = a[i]})
            = Cardinality({j \in 1..Len(b) : b[j] = a[i]})

DistinctDates(es) ==
    \A i, j \in 1..Len(es) : es[i].entry_date = es[j].entry_date => i = j

\* C6: for a list with pairwise distinct dates, any reordering of it and any
\* maxEntriesToAnalyze, predictCycle returns the same prediction
C6_OrderIrrelevant ==
    ( /\ Len(calls) = 2
      /\ IsReordering(calls[1].cycleEntries, calls[2].cycleEntries)
      /\ DistinctDates(calls[1].cycleEntries)
      /\ calls[1].now = calls[2].now )
    => calls[1].result = calls[2].result

\* C6, amended: the same, for lists no longer than maxEntriesToAnalyze
C6_OrderIrrelevantWithinLimit ==
    ( /\ Len(calls) = 2
      /\ IsReordering(calls[1].cycleEntries, calls[2].cycleEntries)
      /\ DistinctDates(calls[1].cycleEntries)
      /\ Len(calls[1].cycleEntries) <= calls[1].maxEntriesToAnalyze
      /\ calls[1].now = calls[2].now )
    => calls[1].result = calls[2].result

\* three entries of distinct dates, passed in two different orders, neither
\* of them ascending, with two cycle starts
C6_Witness ==
    /\ Len(calls) = 2
    /\ calls[1].cycleEntries # calls[2].cycleEntries
    /\ DistinctDates(calls[1].cycleEntries)
    /\ Len(calls[1].cycleEntries) = 3
    /\ Len(calls[1].cycleEntries) <= calls[1].maxEntriesToAnalyze
    /\ calls[1].now = calls[2].now
    /\ \A i \in 1..2 : \E k \in 1..2 :
          calls[i].cycleEntries[k].entry_date > calls[i].cycleEntries[k + 1].entry_date
    /\ Len(calls[1].locals.cycleStarts) = 2
    /\ calls[1].result = calls[2].result

\* C7: two calls with the same entries and profile return identical results
\* whatever the current date, whenever the entries yield a cycle start; with
\* no cycle start they differ at most in the dates, and only when the current
\* date differs
C7_Deterministic ==
    ( /\ Len(calls) = 2
      /\ calls[1].cycleEntries = calls[2].cycleEntries
      /\ calls[1].profile = calls[2].profile
      /\ calls[1].maxEntriesToAnalyze = calls[2].maxEntriesToAnalyze )
    => /\ (calls[1].locals.cycleStarts # <<>> \/ calls[1].now = calls[2].now)
            => calls[1].result = calls[2].result
       /\ calls[1].result.confidence = calls[2].result.confidence
       /\ calls[1].result.source = calls[2].result.source
       /\ calls[1].result.metadata = calls[2].result.metadata

\* two calls on the same entries, with a cycle start, at different instants
C7_Witness ==
    /\ Len(calls) = 2
    /\ calls[1].cycleEntries = calls[2].cycleEntries
    /\ calls[1].locals.cycleStarts # <<>>
    /\ calls[1].now # calls[2].now
    /\ calls[1].result = calls[2].result

\* C8: with at least 3 samples of mean 0, predictCycle returns source
\* historical with the finite confidence 0.95
C8_ZeroMeanGuarded ==
    \A c \in CallsMade :
        (SampleCount(c) >= 3 /\ SpanDays(c) = 0)
        => /\ c.result.source = "historical"
           /\ c.result.confidence = Number(95)

\* stdDev/mean of the first call is less than stdDev/mean of the second, for
\* positive means and the same number of samples (the denominators of the
\* two variances and of the two means are then the same): compared on the
\* squares
LessDeviation(m1, m2) ==
    m1.std_deviation_squared.num * m2.average_cycle_length.num
        * m2.average_cycle_length.num
    < m2.std_deviation_squared.num * m1.average_cycle_length.num
        * m1.average_cycle_length.num

\* two calls with the same number n >= 3 of samples, the first with the
\* smaller relative deviation
ComparableCalls ==
    /\ Len(calls) = 2
    /\ SampleCount(calls[1]) >= 3
    /\ SampleCount(calls[1]) = SampleCount(calls[2])
    /\ calls[1].result.metadata.average_cycle_length.num > 0
    /\ calls[2].result.metadata.average_cycle_length.num > 0
    /\ LessDeviation(calls[1].result.metadata, calls[2].result.metadata)

\* C9: for a fixed n >= 3, a smaller stdDev/mean gives a strictly greater
\* confidence
C9_StrictlyDecreasing ==
    ComparableCalls
    => calls[1].result.confidence.hundredths > calls[2].result.confidence.hundredths

\* C9, amended: a smaller stdDev/mean never gives a smaller confidence
C9_NeverIncreasing ==
    ComparableCalls
    => /\ ~calls[1].result.confidence.nan
       /\ ~calls[2].result.confidence.nan
       /\ calls[1].result.confidence.hundredths >= calls[2].result.confidence.hundredths

\* two comparable calls whose confidences lie strictly between the floor and
\* the cap, the first one higher
C9_Witness ==
    /\ ComparableCalls
    /\ calls[1].result.confidence.hundredths < 95
    /\ calls[2].result.confidence.hundredths > 50
    /\ calls[1].result.confidence.hundredths > calls[2].result.confidence.hundredths

\* C10: exactly three detected cycle starts, each 28 days after the previous
\* one, give source historical and confidence 0.95
C10_ThreeRegularCycles ==
    \A c \in CallsMade :
        LET starts == c.locals.cycleStarts
        IN  ( /\ Len(starts) = 3
              /\ IsoDate(starts[2]) - IsoDate(starts[1]) = 28
              /\ IsoDate(starts[3]) - IsoDate(starts[2]) = 28 )
            => /\ c.result.source = "historical"
               /\ c.result.confidence = Number(95)

\* C11: four detected cycle starts with consecutive gaps of 28, 35 and 21
\* days give source historical and a confidence within [0.5, 0.8]
C11_IrregularCycles ==
    \A c \in CallsMade :
        LET starts == c.locals.cycleStarts
        IN  ( /\ Len(starts) = 4
              /\ IsoDate(starts[2]) - IsoDate(starts[1]) = 28
              /\ IsoDate(starts[3]) - IsoDate(starts[2]) = 35
              /\ IsoDate(starts[4]) - IsoDate(starts[3]) = 21 )
            => /\ c.result.source = "historical"
               /\ ~c.result.confidence.nan
               /\ c.result.confidence.hundredths \in 50..80

\* C12: the confidence of every prediction lies in the documented band of
\* its source: exactly 0.5 for profile_default, 0.6 to 0.7 for hybrid, 0.7 to
\* 0.95 for historical
C12_ConfidenceBands ==
    \A c \in CallsMade :
        /\ ~c.result.confidence.nan
        /\ c.result.source = "profile_default" => c.result.confidence.hundredths = 50
        /\ c.result.source = "hybrid" => c.result.confidence.hundredths \in 60..70
        /\ c.result.source = "historical" => c.result.confidence.hundredths \in 70..95

(***************************************************************************)
(* Properties of send-reminders                                            *)
(***************************************************************************)
Evaluated == {evaluations[i] : i \in 1..Len(evaluations)}

\* the days_before the schedule asks for: its own, 0 included, else 3
ConfiguredDaysBefore(config) ==
    IF "days_before" \in DOMAIN config THEN config.days_before ELSE 3

\* an enabled period_start, period_end or fertile_window reminder evaluated
\* with a prediction that carries the date of its event
BoundToPrediction(e) ==
    /\ e.reminder.enabled
    /\ e.prediction # null
    /\ \/ e.reminder.reminder_type \in {"period_start", "period_end"}
       \/ /\ e.reminder.reminder_type = "fertile_window"
          /\ "fertility_window_start" \in DOMAIN e.prediction.metadata

\* the predicted day of the event of a reminder type
PredictedDay(type, prediction) ==
    IF type = "period_start" THEN prediction.cycle_start_date
    ELSE IF type = "period_end" THEN prediction.cycle_end_date
    ELSE prediction.metadata.fertility_window_start

\* C13: with a prediction present, an enabled period_start, period_end or
\* fertile_window reminder is due on day d if and only if d is the predicted
\* period start, period end or fertility-window start minus daysBefore days
C13_DueOnExactlyOneDay ==
    \A e \in Evaluated :
        BoundToPrediction(e)
        => ( e.due <=>
               IsoDate(e.now)
                 = PredictedDay(e.reminder.reminder_type, e.prediction)
                     - ConfiguredDaysBefore(e.reminder.schedule_config) )

\* C14: the due-check uses the schedule's days_before whenever it is present,
\* the value 0 included, and falls back to 3 only when it is absent
C14_ZeroDaysBeforeUsed ==
    \A e \in Evaluated :
        BoundToPrediction(e)
        => /\ "days_before" \in DOMAIN e.reminder.schedule_config
              => e.daysBefore = e.reminder.schedule_config.days_before
           /\ "days_before" \notin DOMAIN e.reminder.schedule_config
              => e.daysBefore = 3

\* the steps the sweep has made
Steps == IF sweep.pc = "idle" THEN {} ELSE {sweep.trace[k] : k \in 1..Len(sweep.trace)}

SweepResults ==
    IF sweep.pc = "idle" THEN {} ELSE {sweep.results[k] : k \in 1..Len(sweep.results)}

WithoutPrediction(reminder) ==
    \A k \in 1..Len(predictions) : predictions[k].user_id # reminder.user_id

\* C16: an enabled period_start, period_end, fertile_window or custom
\* reminder of a user without stored prediction is skipped: nothing is sent
\* for it, no error is raised and the sweep evaluates the remaining reminders
C16_SkippedWithoutPrediction ==
    \A s \in Steps :
        ( /\ s.reminder.reminder_type \notin {"medication", "hydration"}
          /\ s.outcome # "no_user"
          /\ WithoutPrediction(s.reminder) )
        => /\ s.outcome = "skipped"
           /\ \A result \in SweepResults : result.reminder_id # s.reminder.id
           /\ sweep.pc = "loop" => Len(sweep.trace) = sweep.next - 1
           /\ sweep.pc = "done"
                => /\ Len(sweep.trace) = Len(sweep.reminders)
                   /\ sweep.response.status = 200
                   /\ sweep.response.success

\* a finished sweep over an empty prediction store whose first reminder, a
\* period_start, was skipped and whose second, a medication, was sent
C16_Witness ==
    /\ sweep.pc = "done"
    /\ predictions = <<>>
    /\ Len(sweep.trace) = 2
    /\ sweep.trace[1].reminder.reminder_type = "period_start"
    /\ sweep.trace[1].outcome = "skipped"
    /\ sweep.trace[2].outcome = "due"
    /\ Len(sweep.results) = 1
    /\ sweep.results[1].sent
    /\ sweep.response.status = 200

\* C17: a custom reminder is never due, whatever its schedule, the
\* prediction and the day
C17_CustomNeverDue ==
    \A e \in Evaluated : e.reminder.reminder_type = "custom" => ~e.due

\* an enabled custom reminder with a message and days_before = 1, evaluated
\* the day before the predicted period start
C17_Witness ==
    \E e \in Evaluated :
        /\ e.reminder.reminder_type = "custom"
        /\ e.reminder.enabled
        /\ "custom_message" \in DOMAIN e.reminder.schedule_config
        /\ e.reminder.schedule_config.days_before = 1
        /\ e.prediction # null
        /\ IsoDate(e.now) = e.prediction.cycle_start_date - 1
        /\ ~e.due

\* the steps of due reminders, in sweep order
DueSteps ==
    LET due == {k \in 1..Len(sweep.trace) : sweep.trace[k].outcome = "due"}
        rank(k) == Cardinality({j \in due : j <= k})
    IN  [n \in 1..Cardinality(due) |-> sweep.trace[CHOOSE k \in due : rank(k) = n]]

TransportFailed(step) == step.transport \in {"not_ok", "thrown"}

\* C18: a transport failure (non-OK answer or thrown error) for a due
\* reminder records that reminder alone with sent = false; every other
\* reminder is still evaluated and, if due, sent, and the sweep answers
\* success
C18_TransportFailureIsolated ==
    sweep.pc # "idle"
    => /\ Len(sweep.results) = Len(DueSteps)
       /\ \A n \in 1..Len(DueSteps) :
             /\ sweep.results[n].reminder_id = DueSteps[n].reminder.id
             /\ sweep.results[n].sent = ~TransportFailed(DueSteps[n])
       /\ (sweep.pc = "done" /\ \E s \in Steps : TransportFailed(s))
             => /\ Len(sweep.trace) = Len(sweep.reminders)
                /\ sweep.response.status = 200
                /\ sweep.response.success

\* a finished sweep of two due reminders: the transport threw for the first,
\* which is recorded as not sent, and the second was sent
C18_Witness ==
    /\ sweep.pc = "done"
    /\ Len(sweep.trace) = 2
    /\ sweep.trace[1].outcome = "due" /\ sweep.trace[1].transport = "thrown"
    /\ sweep.trace[2].outcome = "due" /\ sweep.trace[2].transport = "ok"
    /\ Len(sweep.results) = 2
    /\ ~sweep.results[1].sent
    /\ sweep.results[2].sent
    /\ sweep.response.status = 200

(***************************************************************************)
(* Properties of predict-cycle                                             *)
(***************************************************************************)
Requests == {requests[i] : i \in 1..Len(requests)}

StoredRows == {predictions[k] : k \in 1..Len(predictions)}

\* C19: when the person has no profile, predict-cycle answers 404 'Profile
\* not found', computes no prediction and appends nothing to the store
C19_MissingProfileNotFound ==
    \A r \in Requests :
        ( /\ "userId" \in DOMAIN r
          /\ \A p \in profiles : p.user_id # r.userId )
        => /\ r.pc = "done"
           /\ r.response = ErrorResponse(404, "Profile not found")
           /\ "prediction" \notin DOMAIN r
           /\ \A row \in StoredRows : row.user_id # r.userId

\* a request for a person without profile answered 404 beside a request that
\* stored a prediction
C19_Witness ==
    /\ \E r \in Requests :
          /\ "userId" \in DOMAIN r
          /\ r.userId = "u4"
          /\ r.response.status = 404
    /\ \E r \in Requests : r.pc = "done" /\ r.response.status = 200
    /\ Len(predictions) = 1

\* the invocations that answered success with a prediction
Computed == {i \in 1..Len(requests) :
                requests[i].pc = "done" /\ requests[i].response.status = 200}

\* C20: every computation inserts one new row, whatever the interleaving:
\* the store holds one row per answered computation, two for two computations
\* of the same person on the same day
C20_OneRowPerComputation ==
    /\ Len(predictions) = Cardinality(Computed)
    /\ \A i \in Computed : requests[i].row \in StoredRows

\* a stored row carries the dates, confidence and source of a prediction
Carries(row, user, prediction) ==
    /\ row.user_id = user
    /\ row.cycle_start_date = prediction.next_period_start
    /\ row.cycle_end_date = prediction.next_period_end
    /\ row.confidence = prediction.confidence
    /\ row.source = prediction.source

\* C23: whenever predict-cycle has answered success with a prediction, the
\* store the sweep reads holds a row with that prediction's dates, confidence
\* and source, whatever the source of the prediction
C23_AnsweredPredictionStored ==
    \A i \in Computed :
        \E row \in StoredRows :
            Carries(row, requests[i].userId, requests[i].response.prediction)

(***************************************************************************)
(* Properties of the schedule                                              *)
(***************************************************************************)
\* the last row of a user in the store: the one computed last
LastComputed(user) ==
    LET rows == {k \in 1..Len(predictions) : predictions[k].user_id = user}
    IN  predictions[CHOOSE k \in rows : \A j \in rows : j <= k]

\* C21: after any sequence of computations for a user, the sweep evaluates
\* the user's cycle-based reminders against the prediction computed last,
\* also when several were computed on the same calendar day
C21_LatestComputedWins ==
    \A s \in Steps :
        s.outcome \in {"due", "not_due"}
        => s.prediction = SelectedPrediction(LastComputed(s.reminder.user_id))

\* C21 for the stores whose rows of the latest prediction_date select the
\* same dates
LatestDateWins ==
    \A s \in Steps :
        s.outcome \in {"due", "not_due"}
        => \E row \in LatestPredictions(predictions, s.reminder.user_id) :
              s.prediction = SelectedPrediction(row)

\* the sweeps that have answered, the current one last
Answered ==
    IF sweep.pc = "done"
    THEN Append(sweeps, [now |-> now, trace |-> sweep.trace, response |-> sweep.response])
    ELSE sweeps

\* the steps of an answered sweep in which a reminder was due
DueIn(run) == {run.trace[k] : k \in {k \in 1..Len(run.trace) : run.trace[k].outcome = "due"}}

\* C22: a reminder due in one sweep is due, and sent again, in every
\* further sweep of the same calendar day over the same stores
C22_DueAgainSameDay ==
    \A a, b \in 1..Len(Answered) :
        ( /\ a < b
          /\ IsoDate(Answered[a].now) = IsoDate(Answered[b].now)
          /\ Answered[b].response.status = 200 )
        => \A s \in DueIn(Answered[a]) :
              \E t \in DueIn(Answered[b]) : t.reminder = s.reminder

\* C22 for the sweeps that read the same prediction
DueAgainOnSamePrediction ==
    \A a, b \in 1..Len(Answered) :
        ( /\ a < b
          /\ IsoDate(Answered[a].now) = IsoDate(Answered[b].now)
          /\ Answered[b].response.status = 200 )
        => \A s \in DueIn(Answered[a]) :
              \/ \E t \in DueIn(Answered[b]) : t.reminder = s.reminder
              \/ \E k \in 1..Len(Answered[b].trace) :
                    /\ Answered[b].trace[k].reminder = s.reminder
                    /\ Answered[b].trace[k].prediction # s.prediction

(***************************************************************************)
(* Properties of the sync queue                                            *)
(***************************************************************************)
AddedItems == {Added[k] : k \in 1..Len(Added)}

\* the rows of the table an item is for
TableOf(item) ==
    IF item.type = "cycle_entry" THEN tables.cycle_entries ELSE tables.symptom_logs

\* C24: once process() has reported an item of an entry logged offline as
\* synced, the server's table of that item holds the logged data for that
\* user and date
C24_SyncedEntryStored ==
    \A a \in AddedItems :
        (a.logged /\ a.item.id \in syncLog.synced)
        => [user_id |-> a.item.data.userId, date |-> a.item.data.date,
            data |-> a.item.data.data] \in TableOf(a.item)

\* the items the page holds: queued, or in flight
Held ==
    {queue[k] : k \in 1..Len(queue)}
        \cup (IF worker.pc = "await" THEN {worker.item} ELSE {})

\* the attempts the held items still have
RECURSIVE RemainingOf(_)
RemainingOf(items) ==
    IF items = {} THEN 0
    ELSE LET item == CHOOSE i \in items : TRUE
         IN  (maxRetries + 1 - item.retries) + RemainingOf(items \ {item})

Remaining == RemainingOf(Held)

\* the bounds of a run: no item is attempted a fifth time, an item is given
\* up only at its fourth failure and without having been synced, and the
\* flag is set exactly while an item is in flight
RunBounded ==
    /\ \A item \in Held : item.retries \in 0..maxRetries
    /\ \A d \in syncLog.dropped :
          /\ d.retries = maxRetries
          /\ d.id \notin syncLog.synced
          /\ \A item \in Held : item.id # d.id
    /\ processing <=> worker.pc = "await"

\* every step of the loop uses up an attempt
LoopProgresses ==
    (worker.pc = "await" /\ worker' # worker) => Remaining' < Remaining

\* C27 as stated: the bounds of a run hold, the loop progresses, and every
\* call of process() returns with an empty queue and the flag reset
C27_EveryCallDrains ==
    /\ [](/\ RunBounded
          /\ \A r \in syncLog.returned : r.queue = <<>> /\ ~r.processing)
    /\ [][LoopProgresses]_vars

\* C27 for the calls that start a run: process() called while the flag is
\* clear and the queue not empty attempts an item at most 4 times, gives it
\* up unsynced after the fourth failure, uses up an attempt with every
\* iteration, and returns with an empty queue and the flag reset
C27_StartedRunDrains ==
    /\ [](/\ RunBounded
          /\ \A r \in syncLog.returned :
                r.started => (r.queue = <<>> /\ ~r.processing))
    /\ [][LoopProgresses]_vars

\* a run has returned after giving up an item at its fourth failure, and a
\* call made during a run has returned at once
C27_Witness ==
    /\ \E d \in syncLog.dropped : d.retries = maxRetries
    /\ \E r \in syncLog.returned : r.started
    /\ \E r \in syncLog.returned : ~r.started /\ r.processing
    /\ ~processing
    /\ queue = <<>>

\* the ids of the items that are neither synced nor given up
Pending ==
    {a.item.id : a \in AddedItems}
        \ (syncLog.synced \cup {d.id : d \in syncLog.dropped})

\* C28: at every moment every pending item is in the persisted queue, and
\* the page still holds it after a reload
C28_PendingPersisted ==
    \A id \in Pending :
        /\ storage.present
        /\ \E k \in 1..Len(storage.items) : storage.items[k].id = id
        /\ \E item \in Held : item.id = id

\* the added item of an id
ItemOf(id) == (CHOOSE a \in AddedItems : a.item.id = id).item

\* two items write the same row
SameRow(i, j) ==
    /\ i.type = j.type
    /\ i.data.userId = j.data.userId
    /\ i.data.date = j.data.date

\* C29: operations on the same user and date are applied in the order in
\* which they were enqueued: when an item is synced, no item enqueued after
\* it for the same row has been synced before
C29_AppliedInOrder ==
    [][\A id \in syncLog'.synced \ syncLog.synced :
          \A earlier \in syncLog.synced :
              SameRow(ItemOf(id), ItemOf(earlier)) => earlier < id]_vars

(***************************************************************************)
(* Properties of the two copies of the algorithm                           *)
(***************************************************************************)
\* C25: for every entry list, profile and maxEntriesToAnalyze, and the same
\* current date, predictCycle of the shared library and predictCycle of the
\* predict-cycle function return identical results
C25_CopiesAgree ==
    Len(calls) = 2
    => /\ calls[2].cycleEntries = calls[1].cycleEntries
       /\ calls[2].profile = calls[1].profile
       /\ calls[2].maxEntriesToAnalyze = calls[1].maxEntriesToAnalyze
       /\ calls[2].now = calls[1].now
       /\ calls[2].result = calls[1].result

\* both copies have answered on a history analysed as 'historical', in the
\* zone whose clocks change
C25_Witness ==
    /\ Len(calls) = 2
    /\ tz.hasDst
    /\ calls[1].result.source = "historical"
    /\ calls[2].result.source = "historical"
    /\ calls[2].result.confidence = Number(88)

(***************************************************************************)
(* Properties of predictMultipleCycles                                     *)
(***************************************************************************)
\* C26: predictMultipleCycles(entries, profile, k) returns k predictions, the
\* first is predictCycle(entries, profile), and next_period_start strictly
\* increases from each prediction to the next
C26_ForecastsIncrease ==
    \A c \in CallsMade :
        /\ Len(c.predictions) = c.numberOfCycles
        /\ c.predictions[1]
             = predictCycle(c.cycleEntries, c.profile, DefaultMaxEntries, c.now, tz)
        /\ \A i \in 1..(Len(c.predictions) - 1) :
              c.predictions[i].next_period_start
                < c.predictions[i + 1].next_period_start

\* what holds of C26: the number of predictions, the first of them, and
\* starts that never move back
ForecastsNeverDecrease ==
    \A c \in CallsMade :
        /\ Len(c.predictions) = c.numberOfCycles
        /\ c.predictions[1]
             = predictCycle(c.cycleEntries, c.profile, DefaultMaxEntries, c.now, tz)
        /\ \A i \in 1..(Len(c.predictions) - 1) :
              c.predictions[i].next_period_start
                <= c.predictions[i + 1].next_period_start

\* the third prediction never lies after the second: the second synthetic
\* entry follows the first without a day without flow between them
ThirdForecastRepeats ==
    \A c \in CallsMade :
        Len(c.predictions) >= 3
        => c.predictions[3].next_period_start <= c.predictions[2].next_period_start

(***************************************************************************)
(* Properties of the send-reminders response                               *)
(***************************************************************************)
\* the result entries whose notification was delivered
Delivered == {k \in 1..Len(sweep.results) : sweep.results[k].sent}

\* C30: in the response of a sweep, processed is the number of enabled,
\* non-deleted reminders that were fetched and sent is the number of result
\* entries with sent = true
C30_CountsDelivered ==
    (sweep.pc = "done" /\ sweep.response.status = 200)
    => /\ sweep.response.processed = Len(EnabledReminders(reminders))
       /\ sweep.response.sent = Cardinality(Delivered)

(***************************************************************************)
(* Supporting facts: what is left of C3 and C4 in a zone without daylight  *)
(* saving, where setDate and toISOString agree                             *)
(***************************************************************************)
WindowLengthsExactWithoutDst == ~tz.hasDst => C3_WindowLengthsExact

AnchoredForecastWithoutDst == ~tz.hasDst => C4_AnchoredForecast

\* C13 holds for every schedule whose days_before is not 0
DueOnExactlyOneDayUnlessZero ==
    \A e \in Evaluated :
        ( /\ BoundToPrediction(e)
          /\ "days_before" \in DOMAIN e.reminder.schedule_config
                => e.reminder.schedule_config.days_before # 0 )
        => ( e.due <=>
               IsoDate(e.now)
                 = PredictedDay(e.reminder.reminder_type, e.prediction)
                     - ConfiguredDaysBefore(e.reminder.schedule_config) )

\* the append-only part of C20: predict-cycle never changes or removes a row
PredictionsAppendOnly ==
    [][/\ Len(predictions') >= Len(predictions)
       /\ SubSeq(predictions', 1, Len(predictions)) = predictions]_vars

\* C20 holds for the computations whose source the table accepts
OneRowPerAcceptedComputation ==
    /\ Len(predictions)
         = Cardinality({i \in Computed : requests[i].row.source \in PredictionSources})
    /\ \A i \in Computed :
          requests[i].row.source \in PredictionSources => requests[i].row \in StoredRows

====
